---- MODULE Spec2Model ----
(***************************************************************************)
(* Bloom's Hybrid Indicator (indicator_full_system_gui.py): the voting     *)
(* state machine over the SQLite store bloom_indicator.db.                 *)
(*                                                                         *)
(* The program is a Streamlit script: every interaction of a browser       *)
(* session re-executes it top to bottom (a "script run").  A run opens its *)
(* own connection (line 49), logs the sidebar user in (lines 177-185) and  *)
(* then executes the handler of the pressed button.  Runs of different     *)
(* sessions execute concurrently against the one database file.            *)
(*                                                                         *)
(* A connection's SELECT reads the committed content of the file.  Its     *)
(* first INSERT/UPDATE opens a transaction and takes the file's write lock *)
(* until conn.commit(): what is written between the two is invisible to    *)
(* the other connections and excludes their writes, so each transaction    *)
(* (lines 140-151, lines 158-167, lines 180-181, lines 207-211) is one     *)
(* step.  The SELECTs before a transaction are steps of their own: they    *)
(* are not part of it, and other runs commit between them and it.          *)
(*                                                                         *)
(* Spec and SpecSerial are about the calls of submit_word,                 *)
(* check_or_predict_word and predict_question on the database: they draw   *)
(* the arguments of each call from their sets and leave st.session_state   *)
(* as it is.  Every word is one a session can have checked before (a check *)
(* writes no table), so no call is drawn that the user interface cannot    *)
(* make.  SpecFlow is about the Check / Suggest and Submit Word buttons    *)
(* with the session state between them (lines 222-258).                    *)
(***************************************************************************)
EXTENDS Integers, Sequences, FiniteSets, TLC

\* ---------------------------------------------------------------- bounds
\* Number of distinct usernames that are ever typed in the sidebar.
NumUsers == 11
\* Cap on the length of the questions table.
MaxQuestions == 2
\* Number of usernames typed in the check-then-submit flow (SpecFlow).
FlowUsers == 2

\* ------------------------------------------------------- program constants
\* line 143: approved = 1 if vote_count >= 10 else 0
APPROVAL_THRESHOLD == 10

\* Texts are sequences of characters, so that str.strip() is computed.
Blank == " "
EmptyText == <<>>
W_design == <<"d">>
\* Values of the text input of line 220.
Words == {W_design}
\* The word typed with a blank after it, and with a blank before it.
PaddedWords == {<<"d", Blank>>, <<Blank, "d">>}
\* Values of the text input of line 220 when Check / Suggest is pressed.
CheckWords == Words \cup PaddedWords
\* Values of the text area of line 195.
Questions == {W_design, EmptyText, <<Blank>>}
\* Two of the six options of the selectbox of lines 248-252.
Levels == {"apply", "create"}
\* Texts the classifier labels: every text that is not empty (lines 94-95 and
\* 111-112 put no condition on their argument).
Texts == (CheckWords \cup Questions) \ {EmptyText}

\* Browser sessions, each executing one script run at a time.
Sessions == {"s1", "s2"}
NoSession == "none"
\* Python's None for user_id (line 185); AUTOINCREMENT ids start at 1.
None == 0
\* The empty sidebar text (line 177), falsy at line 179.
NoName == 0
Usernames == 1..NumUsers

VARIABLES
    users,        \* table users: sequence of usernames, id = position
    bloom_words,  \* table bloom_words: sequence of rows, id = position
    votes,        \* table votes: set of <<user_id, word_id>> rows
    questions,    \* table questions: sequence of rows
    model,        \* the loaded classifier: text -> label
    pc,           \* per session: position of its script run in progress
    user_id,      \* per session: user_id of the run (lines 183, 185)
    word,         \* per session: submit_word's parameter word
    level,        \* per session: submit_word's parameter level
    word_id,      \* per session: submit_word's local word_id
    vote_count,   \* per session: submit_word's local vote_count
    returned,     \* the message the handler that ended in the last step
                  \* returned, with its session; Nothing after other steps
    session_state \* per session: st.session_state's suggestion and
                  \* checked_word, which outlive the script run

db == <<users, bloom_words, votes, questions>>
locals == <<user_id, word, level, word_id, vote_count>>
vars == <<users, bloom_words, votes, questions, model, pc,
          user_id, word, level, word_id, vote_count, returned, session_state>>

\* ---------------------------------------------------------------- helpers
Min(S) == CHOOSE x \in S : \A y \in S : x <= y

\* str.strip() on a text (lines 198, 223): drop leading and trailing blanks.
RECURSIVE LStrip(_)
LStrip(s) == IF s # <<>> /\ Head(s) = Blank THEN LStrip(Tail(s)) ELSE s
RECURSIVE RStrip(_)
RStrip(s) ==
    IF s # <<>> /\ s[Len(s)] = Blank THEN RStrip(SubSeq(s, 1, Len(s) - 1)) ELSE s

\* Faulty variant: the text is tested as typed.
Strip_Untrimmed(s) == s

Strip(s) == RStrip(LStrip(s))

\* The returned messages, by their text: kind names the f-string, word, level
\* and count are the values it interpolates.
Nothing ==
    [session |-> NoSession, kind |-> "None", word |-> <<>>, level |-> "", count |-> 0]
Msg(k, w, l, n) ==
    [session |-> NoSession, kind |-> k, word |-> w, level |-> l, count |-> n]

\* Python's None for st.session_state.checked_word (line 13): no typed text.
NoText == <<"None">>

\* lines 10-13, 257-258: suggestion = None, checked_word = None.
NoSuggestion == [suggestion |-> Nothing, checked_word |-> NoText]

\* lines 224-225: the suggestion and the checked word of a check that
\* returned r for the word w.
Suggestion(r, w) ==
    [suggestion |-> [r EXCEPT !.session = NoSession], checked_word |-> w]

\* Faulty variant: the row is created with no vote counted.
NewWordRow_ZeroVotes(w, l) ==
    [word |-> w, suggested_level |-> l, vote_count |-> 0, approved |-> FALSE]

\* A bloom_words row as inserted at lines 158-161 (approved DEFAULT 0, line 65).
NewWordRow(w, l) ==
    [word |-> w, suggested_level |-> l, vote_count |-> 1, approved |-> FALSE]

\* Faulty variant: > for >=.
Approved_OffByOne(n) == n > APPROVAL_THRESHOLD

\* line 143: approved = 1 if vote_count >= 10 else 0
Approved(n) == n >= APPROVAL_THRESHOLD

\* Faulty variant: the UPDATE sets vote_count alone.
UpdatedRow_CountOnly(row, n) == [row EXCEPT !.vote_count = n]

\* lines 145-149: UPDATE bloom_words SET vote_count=?, approved=?
UpdatedRow(row, n) == [row EXCEPT !.vote_count = n, !.approved = Approved(n)]

\* lines 153-156: the message returned for a vote on an existing row.
VoteMessage(w, l, n) ==
    IF Approved(n) THEN Msg("NowApproved", w, l, 0) ELSE Msg("VoteRecorded", w, "", n)

\* Faulty variant: the SELECT without "AND suggested_level=?".
WordRows_AnyLevel(tbl, w, l) == {i \in 1..Len(tbl) : tbl[i].word = w}

\* lines 123-127: ids of the rows SELECTed for (word, level), in rowid order.
WordRows(tbl, w, l) ==
    {i \in 1..Len(tbl) : tbl[i].word = w /\ tbl[i].suggested_level = l}

\* lines 132-137: SELECT id FROM votes WHERE user_id=? AND word_id=?
VoteRows(tbl, u, id) == {v \in tbl : v = <<u, id>>}

\* Faulty variant: the votes table without its UNIQUE constraint.
UniqueViolated_Never(tbl, u, id) == FALSE

\* line 75: UNIQUE(user_id, word_id), checked by the INSERT of line 140.
UniqueViolated(tbl, u, id) == <<u, id>> \in tbl

\* Faulty variant: the SELECT without "AND approved=1".
ApprovedRows_AnyRow(tbl, w) == {i \in 1..Len(tbl) : tbl[i].word = w}

\* lines 102-106: ids of the approved rows SELECTed for word, in rowid order.
ApprovedRows(tbl, w) ==
    {i \in 1..Len(tbl) : tbl[i].word = w /\ tbl[i].approved}

Registered(tbl) == {tbl[i] : i \in 1..Len(tbl)}

\* Faulty variant: a plain INSERT into a table without UNIQUE(username).
InsertOrIgnore_Always(tbl, name) == Append(tbl, name)

\* lines 180-181: INSERT OR IGNORE INTO users; commit (line 55: UNIQUE).
InsertOrIgnore(tbl, name) ==
    IF name \in Registered(tbl) THEN tbl ELSE Append(tbl, name)

\* Faulty variant: submit_word without its guard.
MissingUser_Never(uid) == FALSE

\* line 120: if not user_id
MissingUser(uid) == uid = None

\* Faulty variant: the approved level of the ledger is preferred to the
\* classifier's label.
model_predict_LedgerFirst(t) ==
    LET rows == ApprovedRows(bloom_words, t) IN
    IF rows # {} THEN bloom_words[Min(rows)].suggested_level ELSE model[t]

\* lines 94-95, 111-112: model.predict(vectorizer.transform([text]))[0]
model_predict(t) == model[t]

\* lines 207-210: the questions row inserted for a question and its label.
QuestionRow(q, p) == [question_text |-> q, predicted_level |-> p]

\* lines 179-185: the user_id of a run whose sidebar text is name.
LoginId(tbl, name) ==
    IF name = NoName THEN None ELSE CHOOSE i \in 1..Len(tbl) : tbl[i] = name

\* ------------------------------------------------------------------- Init
\* The first start on a new database file (lines 49-88).
Init ==
    /\ users = <<>>
    /\ bloom_words = <<>>
    /\ votes = {}
    /\ questions = <<>>
    /\ model \in [Texts -> Levels]
    /\ pc = [s \in Sessions |-> "idle"]
    /\ user_id = [s \in Sessions |-> None]
    /\ word = [s \in Sessions |-> <<>>]
    /\ level = [s \in Sessions |-> ""]
    /\ word_id = [s \in Sessions |-> 0]
    /\ vote_count = [s \in Sessions |-> 0]
    /\ returned = Nothing
    /\ session_state = [s \in Sessions |-> NoSuggestion]

\* The end of a script run: its locals are gone, its message is displayed.
Return(s, r) ==
    /\ pc' = [pc EXCEPT ![s] = "idle"]
    /\ returned' = [r EXCEPT !.session = s]
    /\ user_id' = [user_id EXCEPT ![s] = None]
    /\ word' = [word EXCEPT ![s] = <<>>]
    /\ level' = [level EXCEPT ![s] = ""]
    /\ word_id' = [word_id EXCEPT ![s] = 0]
    /\ vote_count' = [vote_count EXCEPT ![s] = 0]

\* A step of a run that goes on at position p.
Goto(s, p) ==
    /\ pc' = [pc EXCEPT ![s] = p]
    /\ returned' = Nothing

\* lines 177-185, at the start of every run.
Login(s, name) ==
    /\ pc[s] = "idle"
    /\ users' = IF name = NoName THEN users ELSE InsertOrIgnore(users, name)

\* A run in which no button is pressed.
NoButton(s, name) ==
    /\ Login(s, name)
    /\ Return(s, Nothing)
    /\ UNCHANGED <<bloom_words, votes, questions, model>>

\* ---------------------------------------------------------- submit_word
\* line 255 -> lines 118-121: the call, and the guard on user_id.
submit_word(s, name, w, l) ==
    /\ Login(s, name)
    /\ IF MissingUser(LoginId(users', name))
       THEN Return(s, Msg("MissingUser", <<>>, "", 0))
       ELSE /\ Goto(s, "select_word")
            /\ user_id' = [user_id EXCEPT ![s] = LoginId(users', name)]
            /\ word' = [word EXCEPT ![s] = w]
            /\ level' = [level EXCEPT ![s] = l]
            /\ UNCHANGED <<word_id, vote_count>>
    /\ UNCHANGED <<bloom_words, votes, questions, model>>

\* lines 123-130: SELECT id, vote_count ... fetchone().
SelectWord(s) ==
    /\ pc[s] = "select_word"
    /\ LET rows == WordRows(bloom_words, word[s], level[s]) IN
       IF rows # {}
       THEN /\ word_id' = [word_id EXCEPT ![s] = Min(rows)]
            /\ vote_count' = [vote_count EXCEPT ![s] = bloom_words[Min(rows)].vote_count]
            /\ Goto(s, "select_vote")
       ELSE /\ Goto(s, "insert_word")
            /\ UNCHANGED <<word_id, vote_count>>
    /\ UNCHANGED <<db, model, user_id, word, level>>

\* lines 132-138: the duplicate check.
SelectVote(s) ==
    /\ pc[s] = "select_vote"
    /\ IF VoteRows(votes, user_id[s], word_id[s]) # {}
       THEN Return(s, Msg("AlreadyVoted", <<>>, "", 0))
       ELSE /\ Goto(s, "insert_vote")
            /\ UNCHANGED locals
    /\ UNCHANGED <<db, model>>

\* lines 140-156: INSERT INTO votes; vote_count += 1; UPDATE bloom_words;
\* commit; the returned message.
VoteTransaction(s) ==
    /\ pc[s] = "insert_vote"
    /\ ~UniqueViolated(votes, user_id[s], word_id[s])
    /\ votes' = votes \cup {<<user_id[s], word_id[s]>>}
    /\ bloom_words' = [bloom_words EXCEPT ![word_id[s]] = UpdatedRow(@, vote_count[s] + 1)]
    /\ Return(s, VoteMessage(word[s], level[s], vote_count[s] + 1))
    /\ UNCHANGED <<users, questions, model>>

\* line 140 when the row exists by now: the INSERT raises
\* sqlite3.IntegrityError, the run ends and its transaction is rolled back.
VoteRaises(s) ==
    /\ pc[s] = "insert_vote"
    /\ UniqueViolated(votes, user_id[s], word_id[s])
    /\ Return(s, Msg("IntegrityError", <<>>, "", 0))
    /\ UNCHANGED <<db, model>>

\* lines 158-168: INSERT INTO bloom_words; last_insert_rowid(); INSERT INTO
\* votes; commit; the returned message.
WordTransaction(s) ==
    /\ pc[s] = "insert_word"
    /\ bloom_words' = Append(bloom_words, NewWordRow(word[s], level[s]))
    /\ votes' = votes \cup {<<user_id[s], Len(bloom_words')>>}
    /\ Return(s, Msg("Added", word[s], "", 0))
    /\ UNCHANGED <<users, questions, model>>

\* ------------------------------------------------ check_or_predict_word
\* Faulty variant: the checked word is logged in the questions table, as the
\* Predict handler logs its question.
check_or_predict_word_Logged(s, name, w) ==
    /\ Login(s, name)
    /\ Strip(w) # <<>>
    /\ Len(questions) < MaxQuestions
    /\ questions' = Append(questions, QuestionRow(w, model_predict(w)))
    /\ Return(s, Msg("NLPSuggestion", <<>>, model_predict(w), 0))
    /\ UNCHANGED <<bloom_words, votes, model>>

\* lines 222-225 -> lines 101-113: Check / Suggest with a non-blank word.
check_or_predict_word(s, name, w) ==
    /\ Login(s, name)
    /\ Strip(w) # <<>>
    /\ LET rows == ApprovedRows(bloom_words, w) IN
       IF rows # {}
       THEN Return(s, Msg("AlreadyApproved", w, bloom_words[Min(rows)].suggested_level, 0))
       ELSE Return(s, Msg("NLPSuggestion", <<>>, model_predict(w), 0))
    /\ UNCHANGED <<bloom_words, votes, questions, model>>

\* ------------------------------------------------------ predict_question
\* lines 197-211 -> lines 93-96: Predict with non-blank text.
predict_question(s, name, q) ==
    /\ Login(s, name)
    /\ Strip(q) # <<>>
    /\ Len(questions) < MaxQuestions
    /\ questions' = Append(questions, QuestionRow(q, model_predict(q)))
    /\ Return(s, Msg("Predicted", <<>>, model_predict(q), 0))
    /\ UNCHANGED <<bloom_words, votes, model>>

\* lines 197-198, 212-213: Predict with blank text.
predict_blank(s, name, q) ==
    /\ Login(s, name)
    /\ Strip(q) = <<>>
    /\ Return(s, Msg("EnterQuestion", <<>>, "", 0))
    /\ UNCHANGED <<bloom_words, votes, questions, model>>

\* ------------------------------------------------------------ the inputs
\* Usernames and user ids are only compared for equality, so the runs are
\* enumerated up to renaming of users.  A username not seen before is the
\* least unused one, and it is first typed for a vote.  The user voting for a
\* (word, level) is the least one who has not, or the greatest one who has
\* (the duplicate submission).
Voters(w, l) ==
    LET rows == WordRows(bloom_words, w, l) IN
    {v[1] : v \in {x \in votes : x[2] \in rows}}
    \cup {user_id[t] : t \in {x \in Sessions :
             pc[x] # "idle" /\ word[x] = w /\ level[x] = l}}

VoterInputs(w, l) ==
    LET voted == Voters(w, l)
        fresh == (1..NumUsers) \ voted
    IN  {NoName}
        \cup {u \in fresh : u <= Len(users) + 1 /\ \A v \in fresh : u <= v}
        \cup {u \in voted : \A v \in voted : v <= u}

KnownNames == {NoName} \cup {n \in Registered(users) : n = Len(users)}

\* The SELECTs and transactions of a submit_word call of session s in
\* progress, the session state left as it is.
RunStep(s) ==
    \/ SelectWord(s) /\ UNCHANGED session_state
    \/ SelectVote(s) /\ UNCHANGED session_state
    \/ VoteTransaction(s) /\ UNCHANGED session_state
    \/ WordTransaction(s) /\ UNCHANGED session_state

\* ---------------------------------------------------------- specifications
\* Concurrent sessions voting on one (word, level).  Their runs classify the
\* texts of Words only, so one classifier is drawn for each labelling of Words.
InitVoting ==
    /\ Init
    /\ \A t \in Texts : model[t] = model[W_design]

Next ==
    \E s \in Sessions :
        \/ \E w \in Words, l \in {"apply"} :
              \E name \in VoterInputs(w, l) :
                  submit_word(s, name, w, l) /\ UNCHANGED session_state
        \/ \E w \in Words, name \in KnownNames :
              check_or_predict_word(s, name, w) /\ UNCHANGED session_state
        \/ RunStep(s)
        \/ VoteRaises(s) /\ UNCHANGED session_state

Spec == InitVoting /\ [][Next]_vars

\* One session: every run ends before the next starts.
MainSession == "s1"

NextSerial ==
    \/ \E w \in Words, l \in Levels :
          \E name \in VoterInputs(w, l) :
              submit_word(MainSession, name, w, l) /\ UNCHANGED session_state
    \/ \E w \in CheckWords, name \in KnownNames :
          check_or_predict_word(MainSession, name, w) /\ UNCHANGED session_state
    \/ \E name \in KnownNames :
          NoButton(MainSession, name) /\ UNCHANGED session_state
    \/ \E q \in Questions, name \in KnownNames :
          predict_question(MainSession, name, q) /\ UNCHANGED session_state
    \/ \E q \in Questions, name \in KnownNames :
          predict_blank(MainSession, name, q) /\ UNCHANGED session_state
    \/ RunStep(MainSession)

SpecSerial == Init /\ [][NextSerial]_vars

\* ------------------------------------------- the check-then-submit flow
\* Values of the text input of line 220 in the flow: the word, the word
\* padded, a blank and the empty text.
FlowWords == {W_design, <<"d", Blank>>, <<Blank>>, EmptyText}

\* lines 222-225: Check / Suggest with a word that is not blank.
CheckSuggest(s, name, w) ==
    /\ check_or_predict_word(s, name, w)
    /\ session_state' = [session_state EXCEPT ![s] = Suggestion(returned', w)]

\* lines 222-223, 226-227: Check / Suggest with a blank word.
CheckBlank(s, name, w) ==
    /\ Login(s, name)
    /\ Strip(w) = <<>>
    /\ Return(s, Msg("EnterWord", <<>>, "", 0))
    /\ UNCHANGED <<bloom_words, votes, questions, model, session_state>>

\* lines 257-258, executed when submit_word has returned: the session state
\* after a step of a Submit Word run of session s.
AfterSubmitStep(s) ==
    IF pc'[s] = "idle"
    THEN [session_state EXCEPT ![s] = NoSuggestion]
    ELSE session_state

\* lines 229, 254-255: Submit Word, a button of the section that is rendered
\* when the suggestion is set; the word voted for is the checked word.
SubmitWord(s, name, l) ==
    /\ session_state[s].suggestion # Nothing
    /\ submit_word(s, name, session_state[s].checked_word, l)
    /\ session_state' = AfterSubmitStep(s)

\* lines 123-168 and 256-258 of a Submit Word run in progress.
SubmitStep(s) ==
    \/ SelectWord(s) /\ session_state' = AfterSubmitStep(s)
    \/ SelectVote(s) /\ session_state' = AfterSubmitStep(s)
    \/ VoteTransaction(s) /\ session_state' = AfterSubmitStep(s)
    \/ WordTransaction(s) /\ session_state' = AfterSubmitStep(s)

\* line 140 raising sqlite3.IntegrityError: the exception ends the run, so
\* lines 256-258 are not executed.
SubmitRaises(s) ==
    /\ VoteRaises(s)
    /\ UNCHANGED session_state

\* Usernames of a Submit Word run of session s for level l in the flow.
FlowVoters(s, l) ==
    IF session_state[s].suggestion = Nothing
    THEN {}
    ELSE {n \in VoterInputs(session_state[s].checked_word, l) : n <= FlowUsers}

NextFlow ==
    \E s \in Sessions :
        \/ \E w \in FlowWords, name \in KnownNames : CheckSuggest(s, name, w)
        \/ \E w \in FlowWords, name \in KnownNames : CheckBlank(s, name, w)
        \/ \E l \in {"apply"} : \E name \in FlowVoters(s, l) : SubmitWord(s, name, l)
        \/ SubmitStep(s)
        \/ SubmitRaises(s)

SpecFlow == InitVoting /\ [][NextFlow]_vars

\* ------------------------------------------------------------------ claims
\* The votes table's rows for bloom_words row id.
VotesOn(tbl, id) == {v \in tbl : v[2] = id}

\* In this step session s's submit_word is accepted: it records a vote.
Accepts(s) ==
    /\ pc[s] \in {"insert_vote", "insert_word"}
    /\ pc'[s] = "idle"
    /\ votes' # votes

\* The row an accepted submit_word of session s votes for.
AcceptedRow(s) == IF pc[s] = "insert_word" THEN Len(bloom_words') ELSE word_id[s]

\* A sidebar text with which the run started in this step logs in as the step
\* does: the name the step registers, or else the empty text (a run logs in
\* before its handler reads anything, and a handler reads no username).
TypedName == IF users' = users THEN NoName ELSE users'[Len(users')]

\* C1 (under SpecSerial: the users vote one after another, from no record):
\* when the vote accepted in a step is the n-th distinct user's vote for its
\* row, then for n <= 9 the row is not approved and the outcome is not
\* Approved, and for n = 10 the row is approved and the outcome is Approved.
C1_ThresholdLaw ==
    [][\A s \in Sessions : Accepts(s) =>
        LET id == AcceptedRow(s)
            n == Cardinality(VotesOn(votes', id))
        IN  /\ n <= 9 => /\ ~bloom_words'[id].approved
                         /\ returned'.kind \in {"Added", "VoteRecorded"}
            /\ n = 10 => /\ bloom_words'[id].approved
                         /\ returned'.kind = "NowApproved"]_vars

\* C1's case: the tenth distinct user's vote has just been accepted.
C1_Witness ==
    /\ returned.kind = "NowApproved"
    /\ \E i \in 1..Len(bloom_words) :
          /\ bloom_words[i].vote_count = 10
          /\ bloom_words[i].approved
          /\ Cardinality(VotesOn(votes, i)) = 10

\* C2 (as claimed): an accepted vote on a row that is already approved
\* returns VoteRecorded, never Approved again.
C2_ApprovedOnce ==
    [][\A s \in Sessions :
        (Accepts(s) /\ pc[s] = "insert_vote" /\ bloom_words[word_id[s]].approved)
            => returned'.kind = "VoteRecorded"]_vars

\* C3 (as claimed): a submit_word(w, l, u) whose lookup runs when a vote of u
\* for a row of (w, l) is already in the votes table is rejected as a
\* duplicate (its lookup finds a row u has voted for, so that lines 132-138
\* return), and a rejection changes neither bloom_words nor votes.
C3_DuplicateRejected ==
    [][\A s \in Sessions :
        /\ (/\ pc[s] = "select_word" /\ pc'[s] # "select_word"
            /\ \E i \in WordRows(bloom_words, word[s], level[s]) :
                  <<user_id[s], i>> \in votes)
            => /\ pc'[s] = "select_vote"
               /\ <<user_id[s], word_id'[s]>> \in votes
        /\ (returned'.session = s /\ returned'.kind = "AlreadyVoted")
            => UNCHANGED <<bloom_words, votes>>]_vars

\* C4: a submit_word(w, l, u) whose lookup finds no row for (w, l) goes on to
\* insert, and its insert adds exactly one bloom_words row, (w, l) with
\* vote_count 1 and approved false, and exactly one votes row, (u, that row),
\* and returns Created.
C4_FirstVoteCreates ==
    [][\A s \in Sessions :
        /\ (/\ pc[s] = "select_word" /\ pc'[s] # "select_word"
            /\ \A i \in 1..Len(bloom_words) :
                  ~(bloom_words[i].word = word[s]
                    /\ bloom_words[i].suggested_level = level[s]))
            => pc'[s] = "insert_word"
        /\ (pc[s] = "insert_word" /\ pc'[s] # "insert_word")
            => /\ bloom_words' = Append(bloom_words,
                     [word |-> word[s], suggested_level |-> level[s],
                      vote_count |-> 1, approved |-> FALSE])
               /\ votes' = votes \cup {<<user_id[s], Len(bloom_words) + 1>>}
               /\ Cardinality(votes') = Cardinality(votes) + 1
               /\ returned' = [session |-> s, kind |-> "Added", word |-> word[s],
                               level |-> "", count |-> 0]]_vars

\* C4's case: the first vote for a (word, level) has just created its row.
C4_Witness ==
    /\ returned.kind = "Added"
    /\ Len(bloom_words) = 1
    /\ bloom_words[1].vote_count = 1
    /\ votes = {<<1, 1>>}

\* C5: every bloom_words row is approved if and only if its vote_count is at
\* least 10.
C5_ApprovedIffThreshold ==
    \A i \in 1..Len(bloom_words) :
        bloom_words[i].approved <=> bloom_words[i].vote_count >= 10

\* C5's case: a row at the threshold and approved.
C5_Witness ==
    \E i \in 1..Len(bloom_words) :
        bloom_words[i].approved /\ bloom_words[i].vote_count = 10

\* C6 (as claimed): a row that is approved stays approved in every step.
C6_ApprovalOneWay ==
    [][\A i \in 1..Len(bloom_words) :
        bloom_words[i].approved => bloom_words'[i].approved]_vars

\* C7 (as claimed): check_or_predict_word(w) returns Approved(l) for every
\* approved row (w, l), whatever the classifier's label for w.
C7_LedgerOverridesModel ==
    [][\A s \in Sessions, w \in Words :
            (returned'.session = s /\ check_or_predict_word(s, TypedName, w)) =>
                \A i \in 1..Len(bloom_words) :
                    (bloom_words[i].word = w /\ bloom_words[i].approved) =>
                        returned' = [session |-> s, kind |-> "AlreadyApproved",
                                     word |-> w, count |-> 0,
                                     level |-> bloom_words[i].suggested_level]]_vars

\* C8: check_or_predict_word(w) for a word w with no approved row returns
\* Advisory(p), p the classifier's label for w.
C8_AdvisoryWithoutApproval ==
    [][\A s \in Sessions, w \in Words :
            (/\ returned'.session = s
             /\ check_or_predict_word(s, TypedName, w)
             /\ \A i \in 1..Len(bloom_words) :
                   ~(bloom_words[i].word = w /\ bloom_words[i].approved))
                => returned' = [session |-> s, kind |-> "NLPSuggestion", word |-> <<>>,
                                level |-> model[w], count |-> 0]]_vars

\* C8's case: an advisory answer for a word whose row has 9 votes.
C8_Witness ==
    /\ returned.kind = "NLPSuggestion"
    /\ \E i \in 1..Len(bloom_words) :
          bloom_words[i].vote_count = 9 /\ ~bloom_words[i].approved

\* C9: submit_word with no user (the sidebar text empty) returns MissingUser
\* for every (word, level) and changes neither bloom_words nor votes.
C9_MissingUser ==
    [][\A s \in Sessions, w \in Words, l \in Levels :
        submit_word(s, NoName, w, l) =>
            /\ returned'.session = s /\ returned'.kind = "MissingUser"
            /\ pc'[s] = "idle"
            /\ UNCHANGED <<bloom_words, votes, users>>]_vars

\* C9's case: a vote without a user was refused on a ledger holding a row.
C9_Witness ==
    /\ returned.kind = "MissingUser"
    /\ Len(bloom_words) > 0

\* C10 (as claimed): of two submit_word runs of one user for one
\* (word, level) whose SELECTs and transactions interleave, at most one is
\* accepted.  So when a run is accepted, no vote of its user was accepted while
\* it ran: the row it votes for holds no vote of its user, and when its lookup
\* found no row for (word, level), no row of (word, level) holds one.
C10_NoDoubleCount ==
    [][\A s \in Sessions : Accepts(s) =>
        /\ pc[s] = "insert_vote" => <<user_id[s], word_id[s]>> \notin votes
        /\ pc[s] = "insert_word" =>
              \A i \in 1..Len(bloom_words) :
                  (bloom_words[i].word = word[s]
                   /\ bloom_words[i].suggested_level = level[s])
                      => <<user_id[s], i>> \notin votes]_vars

\* C11 (as claimed): bloom_words holds at most one row for each
\* (word, suggested_level) pair.
C11_OneRecordPerPair ==
    \A i, j \in 1..Len(bloom_words) :
        (/\ bloom_words[i].word = bloom_words[j].word
         /\ bloom_words[i].suggested_level = bloom_words[j].suggested_level)
            => i = j

\* A text of blanks only (the empty text included).
AllBlank(t) == \A i \in 1..Len(t) : t[i] = Blank

\* C12: pressing Predict with a question that is empty after trimming returns
\* the "Please enter a question." warning, a message that carries no label of
\* the classifier, and leaves the questions table (and the rest of the
\* database) unchanged.
C12_EmptyQuestion ==
    [][\A s \in Sessions, q \in Questions :
        (/\ returned'.session = s
         /\ AllBlank(q)
         /\ predict_question(s, TypedName, q) \/ predict_blank(s, TypedName, q))
            => /\ returned' = [session |-> s, kind |-> "EnterQuestion",
                               word |-> <<>>, level |-> "", count |-> 0]
               /\ UNCHANGED <<questions, bloom_words, votes>>]_vars

\* C12's case: the warning was returned while the log holds an entry.
C12_Witness ==
    /\ returned.kind = "EnterQuestion"
    /\ Len(questions) > 0

\* C13: pressing Predict with a question that is not blank returns the
\* classifier's label for the question, whatever rows bloom_words holds for
\* that text, and appends exactly one questions row, holding the question and
\* that label; and no step changes or removes a row the questions table holds.
C13_QuestionAlwaysClassified ==
    [][/\ \A s \in Sessions, q \in Questions :
            (/\ returned'.session = s
             /\ ~AllBlank(q)
             /\ predict_question(s, TypedName, q) \/ predict_blank(s, TypedName, q))
                => /\ returned' = [session |-> s, kind |-> "Predicted",
                                   word |-> <<>>, level |-> model[q], count |-> 0]
                   /\ questions' = Append(questions,
                         [question_text |-> q, predicted_level |-> model[q]])
       /\ Len(questions') >= Len(questions)
       /\ \A i \in 1..Len(questions) : questions'[i] = questions[i]]_vars

\* C13's case: a second question was logged with the classifier's label while
\* its text is an approved word under another level.
C13_Witness ==
    /\ returned.kind = "Predicted"
    /\ Len(questions) = 2
    /\ questions[2].predicted_level = returned.level
    /\ \E i \in 1..Len(bloom_words) :
          /\ bloom_words[i].word = questions[2].question_text
          /\ bloom_words[i].approved
          /\ bloom_words[i].suggested_level # returned.level

\* C14: the login of lines 179-185 is idempotent.  In every step the users
\* table keeps each row it holds, so that a username keeps its id, and holds
\* no username twice, so that different usernames have different ids; and a
\* run that logs in with a username gets the id that username had, or a new
\* id when the users table did not hold it.
C14_UserIdempotent ==
    [][/\ Len(users') >= Len(users)
       /\ \A i \in 1..Len(users) : users'[i] = users[i]
       /\ \A i, j \in 1..Len(users') : users'[i] = users'[j] => i = j
       /\ \A s \in Sessions :
            (pc[s] = "idle" /\ pc'[s] = "select_word") =>
                \A name \in Usernames :
                    submit_word(s, name, word'[s], level'[s]) =>
                        /\ users'[user_id'[s]] = name
                        /\ \A i \in 1..Len(users) :
                              users[i] = name => user_id'[s] = i
                        /\ (\A i \in 1..Len(users) : users[i] # name)
                              => user_id'[s] = Len(users) + 1]_vars

\* C14's case: a user who voted in an earlier run is logged in again, in a
\* users table that holds a later username as well.
C14_Witness ==
    \E s \in Sessions :
        /\ pc[s] = "select_word"
        /\ user_id[s] < Len(users)
        /\ \E v \in votes : v[1] = user_id[s]

\* C15 (under SpecSerial, both levels voted on): a submit_word(w, l, u) is
\* rejected as a duplicate only when u has a vote on a row of (w, l) itself,
\* so a vote of u for w under another level does not stand in its way; and an
\* accepted submit_word(w, l, u) votes on a row of (w, l), leaves every other
\* bloom_words row as it is and adds the one votes row (u, that row).
C15_LevelsIndependent ==
    [][\A s \in Sessions :
        /\ (returned'.session = s /\ returned'.kind = "AlreadyVoted") =>
              \E i \in 1..Len(bloom_words) :
                  /\ bloom_words[i].word = word[s]
                  /\ bloom_words[i].suggested_level = level[s]
                  /\ <<user_id[s], i>> \in votes
        /\ Accepts(s) =>
              LET id == AcceptedRow(s) IN
              /\ bloom_words'[id].word = word[s]
              /\ bloom_words'[id].suggested_level = level[s]
              /\ \A i \in 1..Len(bloom_words) :
                    i # id => bloom_words'[i] = bloom_words[i]
              /\ votes' = votes \cup {<<user_id[s], id>>}
              /\ <<user_id[s], id>> \notin votes]_vars

\* C15's case: a user's vote was accepted who holds votes on two rows of one
\* word under different levels, the rows having different counts.
C15_Witness ==
    /\ returned.kind \in {"Added", "VoteRecorded", "NowApproved"}
    /\ \E v1, v2 \in votes :
          /\ v1[1] = v2[1]
          /\ bloom_words[v1[2]].word = bloom_words[v2[2]].word
          /\ bloom_words[v1[2]].suggested_level # bloom_words[v2[2]].suggested_level
          /\ bloom_words[v1[2]].vote_count > bloom_words[v2[2]].vote_count + 1

\* C16: a step in which check_or_predict_word returns, with the message of an
\* approved row or with the classifier's suggestion, leaves the tables
\* bloom_words, votes, users and questions unchanged (the username of the run
\* is one the users table holds, or empty).
C16_CheckReadOnly ==
    [][returned'.kind \in {"AlreadyApproved", "NLPSuggestion"} =>
          UNCHANGED <<bloom_words, votes, users, questions>>]_vars

\* C16's case: the word checked has an approved row, the ledger holds an
\* unapproved row as well, and the questions table holds an entry.
C16_Witness ==
    /\ returned.kind = "AlreadyApproved"
    /\ Len(questions) > 0
    /\ votes # {}
    /\ \E i \in 1..Len(bloom_words) : ~bloom_words[i].approved

\* C17 (as claimed): check_or_predict_word looks its word up trimmed: for a
\* word typed plain or padded with blanks whose trimmed text has an approved
\* row, it returns the message of an approved row, with the level of an
\* approved row of the trimmed text.
C17_TrimBeforeLookup ==
    [][\A s \in Sessions, w \in CheckWords :
        (/\ returned'.session = s
         /\ check_or_predict_word(s, TypedName, w)
         /\ \E i \in 1..Len(bloom_words) :
               bloom_words[i].word = Strip(w) /\ bloom_words[i].approved)
            => /\ returned'.kind = "AlreadyApproved"
               /\ \E i \in 1..Len(bloom_words) :
                     /\ bloom_words[i].word = Strip(w)
                     /\ bloom_words[i].approved
                     /\ bloom_words[i].suggested_level = returned'.level]_vars

\* C18 (as claimed): the vote_count of every bloom_words row is the number of
\* votes rows that reference it.
C18_CountMatchesVotes ==
    \A i \in 1..Len(bloom_words) :
        bloom_words[i].vote_count = Cardinality(VotesOn(votes, i))

\* C19 (as claimed): no word has two approved bloom_words rows.
C19_OneApprovedLevel ==
    \A i, j \in 1..Len(bloom_words) :
        (/\ bloom_words[i].word = bloom_words[j].word
         /\ bloom_words[i].approved
         /\ bloom_words[j].approved)
            => i = j

\* The messages with which a call of submit_word ends, the exception of
\* line 140 included.
SubmitEnds ==
    {"MissingUser", "AlreadyVoted", "Added", "VoteRecorded", "NowApproved",
     "IntegrityError"}

\* C20 (as claimed), for every session in every step: suggestion and
\* checked_word are None together; a check of a word that is not blank sets
\* them to its message and its word, a step in which a call of submit_word
\* ends clears them, and no other step changes them; and submit_word is called
\* only with the checked word, which is not None and not blank.
C20_CheckThenSubmit ==
    [][\A s \in Sessions :
        /\ session_state'[s].suggestion = Nothing
              <=> session_state'[s].checked_word = NoText
        /\ \A w \in FlowWords :
              (returned'.session = s /\ CheckSuggest(s, TypedName, w))
                  => /\ session_state'[s].checked_word = w
                     /\ session_state'[s].suggestion # Nothing
        /\ (returned'.session = s /\ returned'.kind \in SubmitEnds)
              => session_state'[s] = NoSuggestion
        /\ session_state'[s] # session_state[s]
              => /\ returned'.session = s
                 /\ returned'.kind \in
                       SubmitEnds \cup {"AlreadyApproved", "NLPSuggestion"}
        /\ (/\ pc[s] = "idle"
            /\ \/ pc'[s] # "idle"
               \/ returned'.session = s /\ returned'.kind = "MissingUser")
              => /\ session_state[s].checked_word # NoText
                 /\ ~AllBlank(session_state[s].checked_word)
                 /\ pc'[s] # "idle" => word'[s] = session_state[s].checked_word]_vars

====
